---- MODULE Spec2Model ----
(***************************************************************************)
(* A model of tbtools: the traceback renderers of ultraTB.py (color        *)
(* handling, verbosity modes, report dispatch, source windows) and the     *)
(* interactive debugger session of Debugger.py (stack navigation, list).   *)
(*                                                                         *)
(* Conventions.  Python's None is the string "None" where the other values *)
(* are strings, and NoLine (0) for the list cursor, whose other values are *)
(* line numbers >= 1.  Python sequences are 0-based; the model keeps the   *)
(* source's 0-based indices and adds 1 where it indexes a TLA+ sequence.   *)
(* The text of line k of a source file is modelled by the number k, a      *)
(* padding line '\n' by Blank.                                             *)
(***************************************************************************)
EXTENDS Integers, Sequences, FiniteSets, TLC

-----------------------------------------------------------------------------
(* Bounds of the model *)

\* longest traceback chain handed to a renderer
MaxDepth == 2
\* largest tb_offset given to a renderer's constructor
MaxOffset == 1
\* longest run of consecutive color_toggle calls that is tracked
MaxToggles == 4
\* longest run of consecutive no-argument set_mode calls that is tracked
MaxCycle == 3
\* deepest call stack of the supervised program
MaxStack == 3
\* lengths of the source file: empty, ShortFile or MaxFileLen lines
ShortFile == 4
MaxFileLen == 13
\* the line of the oldest frame is 1, MidLine or MaxFileLen + 2
MidLine == 7
\* integers typed as arguments of list are -1..MaxArg
MaxArg == 3
\* longest run of no-argument list commands that is counted
MaxListRun == 3
\* source windows: file lengths 0..MaxWinFile, lines 1..MaxWinLine,
\* sizes 1..MaxContext
MaxWinFile == 6
MaxWinLine == 7
MaxContext == 5
\* longest source line text carried by a SyntaxError
MaxLineLen == 4
\* longest token sequence of an error line that is enumerated
MaxTokens == 4
\* most frame records of a Verbose render whose values are followed
MaxRecords == 2
\* most times main starts the script
MaxStarts == 3
\* a line number of the gutter has at most MaxDigits + 1 digits
MaxDigits == 7
\* the first breakpoint number of a session has at most MaxBpDigits digits
MaxBpDigits == 3
\* most breakpoints created in a session
MaxBreaks == 2

-----------------------------------------------------------------------------
(* Values *)

None == "None"

\* the renderer instances; both share the process-wide ExceptionColors table
TBs == {"tb1", "tb2"}

\* the schemes registered in the table (tbtools.excolors is not under src/)
Schemes == {"NoColor", "Linux", "LightBG"}

\* names a caller may pass to set_colors
SchemeArgs == Schemes \cup {"Bogus"}

valid_modes == <<"Plain", "Context", "Verbose">>

\* valid_modes[1:3]
verbose_modes == {valid_modes[2], valid_modes[3]}

Modes == {valid_modes[i] : i \in 1..Len(valid_modes)}

\* what a caller may pass as `mode`
ModeArgs == Modes \cup {None, "Bogus"}

Max(a, b) == IF a >= b THEN a ELSE b

Min(a, b) == IF a <= b THEN a ELSE b

\* list.index: the 0-based position of x in seq
index(seq, x) == CHOOSE i \in 0..(Len(seq) - 1) : seq[i + 1] = x

\* Python's seq[a:b]: a negative bound counts from the end, both are clipped
PySlice(seq, a, b) ==
    LET n  == Len(seq)
        lo == IF a < 0 THEN Max(n + a, 0) ELSE Min(a, n)
        hi == IF b < 0 THEN Max(n + b, 0) ELSE Min(b, n)
    IN  IF lo < hi THEN SubSeq(seq, lo + 1, hi) ELSE <<>>

\* 10 ** k
RECURSIVE Pow10(_)
Pow10(k) == IF k = 0 THEN 1 ELSE 10 * Pow10(k - 1)

\* the decimal digits, as characters
DigitChars == <<"0", "1", "2", "3", "4", "5", "6", "7", "8", "9">>

\* str(n) for an integer n >= 0, as a sequence of characters
RECURSIVE str(_)
str(n) == IF n < 10 THEN <<DigitChars[n + 1]>>
          ELSE str(n \div 10) \o <<DigitChars[(n % 10) + 1]>>

\* c * n, as a sequence of characters
Repeat(c, n) == [i \in 1..n |-> c]

\* '%*s' % (width, s): s right-aligned in width columns, left-aligned in
\* -width columns for a negative width, never cut
PadTo(width, s) ==
    IF width >= 0 THEN Repeat(" ", Max(width - Len(s), 0)) \o s
    ELSE s \o Repeat(" ", Max((0 - width) - Len(s), 0))

-----------------------------------------------------------------------------
(* State *)

VARIABLES
    \* ColorSchemeTable.active_scheme_name of the shared ExceptionColors table
    active_scheme_name,
    \* per renderer: TBTools.old_scheme
    old_scheme,
    \* per renderer: TBTools.Colors, the scheme whose colors object is cached
    Colors,
    \* per renderer: FormattedTB.mode
    mode,
    \* per renderer: VerboseTB.include_vars
    include_vars,
    \* per renderer: VerboseTB.tb_offset
    tb_offset,
    \* what the last text call returned
    report,
    \* the exception the last renderer call raised, or "none"
    raised,
    \* the current run of consecutive color_toggle calls on one renderer
    tog,
    \* the current run of consecutive no-argument set_mode calls on one renderer
    cyc,
    \* number of lines of the source file the frames were compiled from, as
    \* linecache sees it now
    nlines,
    \* f_lineno of every frame object
    f_lineno,
    \* the breakpoints: bdb.Breakpoint.bpbynumber, bdb.Breakpoint.bplist and
    \* Bdb.breaks for the source file
    breaks,
    \* Pdb.stack: the (frame, lineno) pairs of the session, oldest first
    stack,
    \* Pdb.curindex (0-based)
    curindex,
    \* Pdb.curframe
    curframe,
    \* Pdb.lineno: the continuation cursor of list
    lineno,
    \* "idle" outside interaction, "live" in the command loop of a live stop,
    \* "postmortem" in the command loop entered by post_mortem
    session,
    \* Pdb._private_frame_stack, <<>> while the attribute does not exist
    private_frame_stack,
    \* what the last command printed
    out,
    \* the last command line given to the command loop
    cmdline,
    \* the current run of no-argument list commands in one frame
    listrun,
    \* the last source window computed, with its inputs
    win,
    \* the last piece of a report computed on its own, with its inputs: the
    \* caret line of a syntax error, the names of an error line, the blocks of
    \* a Verbose render
    detail,
    \* the top-level driver main: where its loop stands
    driver

tbvars == <<active_scheme_name, old_scheme, Colors, mode, include_vars,
            tb_offset, report, raised, tog, cyc>>

pdbvars == <<nlines, f_lineno, breaks, stack, curindex, curframe, lineno, session,
             private_frame_stack, out, cmdline, listrun>>

vars == <<tbvars, pdbvars, win, detail, driver>>

\* a report is abstracted to: the rendering path that produced it, the renderer,
\* the scheme whose colors it was written with, the scheme active in the table
\* when it was started, the number of stack entries in it, whether variable
\* values were resolved, its stack entry blocks in the order they are written
\* (the position of the entry in the traceback, 1 = outermost, and whether
\* the block is written with the emphasized color roles), whether it has
\* the line with the exception kind and message, and whether a failure was
\* printed to the error stream while it was made
NoReport == [kind |-> "none", by |-> None, colors |-> None, table |-> None,
             entries |-> 0, vars |-> FALSE, blocks |-> <<>>,
             excline |-> FALSE, stderr |-> FALSE]

\* no piece of a report computed or asked for
NoDetail == [fn |-> "none"]

\* a piece of a report that is about to be computed: which one, and the
\* inputs it will be computed from
Pending(call, args) == [fn |-> "pending", call |-> call, args |-> args]

\* no breakpoint made; first is bdb.Breakpoint.next.  bpbynumber holds the
\* breakpoints made since, in the order they were made (the one with index
\* i has the number first + i - 1): their line and whether they are
\* enabled, or that they were deleted.  bplist maps a line to the numbers of the
\* breakpoints at that line
NoBreaks(first) == [first |-> first, bpbynumber |-> <<>>,
                    bplist |-> [l \in {} |-> <<>>]]

\* main was not started
NoDriver == [pc |-> "off", user_requested_quit |-> FALSE, quit_given |-> FALSE,
             starts |-> 0, outcome |-> "none", tb |-> <<>>,
             reported |-> FALSE, pm |-> FALSE]

NoRun == [tb |-> None, start |-> None, n |-> 0, prev |-> None, prev_old |-> None]

-----------------------------------------------------------------------------
(* Color Scheme Table *)

\* ColorSchemeTable.set_active_scheme: TRUE iff the name is registered
\* (otherwise the call raises and the table is unchanged)
known_scheme(scheme) == scheme \in Schemes

\* TBTools.__init__: the scheme made active by the constructor
init_scheme(isatty, color_scheme) == IF ~isatty THEN "NoColor" ELSE color_scheme

\* TBTools.set_colors
set_colors(t, scheme) ==
    /\ IF known_scheme(scheme)
       THEN /\ active_scheme_name' = scheme
            /\ Colors' = [Colors EXCEPT ![t] = scheme]
            /\ raised' = "none"
       ELSE /\ raised' = "ValueError"
            /\ UNCHANGED <<active_scheme_name, Colors>>
    /\ tog' = NoRun
    /\ UNCHANGED <<old_scheme, mode, include_vars, tb_offset, report, cyc,
                   pdbvars, win, detail,
                   driver>>

\* the run of consecutive toggles after one more color_toggle on t
tog_after(t) ==
    IF tog.tb = t /\ tog.n >= 1 /\ tog.n < MaxToggles
    THEN [tog EXCEPT !.n = tog.n + 1, !.prev = active_scheme_name,
                     !.prev_old = old_scheme[t]]
    ELSE [tb |-> t, start |-> active_scheme_name, n |-> 1,
          prev |-> active_scheme_name, prev_old |-> old_scheme[t]]

\* a toggle that forgets to remember the scheme it leaves
color_toggle_forgetful(t) ==
    /\ IF active_scheme_name = "NoColor"
       THEN /\ active_scheme_name' = old_scheme[t]
            /\ Colors' = [Colors EXCEPT ![t] = old_scheme[t]]
       ELSE /\ active_scheme_name' = "NoColor"
            /\ Colors' = [Colors EXCEPT ![t] = "NoColor"]
    /\ UNCHANGED old_scheme
    /\ raised' = "none"
    /\ tog' = tog_after(t)
    /\ UNCHANGED <<mode, include_vars, tb_offset, report, cyc, pdbvars, win, detail,
                   driver>>

\* TBTools.color_toggle
color_toggle(t) ==
    /\ IF active_scheme_name = "NoColor"
       THEN /\ active_scheme_name' = old_scheme[t]
            /\ Colors' = [Colors EXCEPT ![t] = old_scheme[t]]
            /\ UNCHANGED old_scheme
       ELSE /\ old_scheme' = [old_scheme EXCEPT ![t] = active_scheme_name]
            /\ active_scheme_name' = "NoColor"
            /\ Colors' = [Colors EXCEPT ![t] = "NoColor"]
    /\ raised' = "none"
    /\ tog' = tog_after(t)
    /\ UNCHANGED <<mode, include_vars, tb_offset, report, cyc, pdbvars, win, detail,
                   driver>>

-----------------------------------------------------------------------------
(* Verbosity modes *)

\* a cycle step that saturates at the last mode instead of wrapping
new_idx_saturating(m) == Min(index(valid_modes, m) + 1, Len(valid_modes) - 1)

\* FormattedTB.set_mode, no argument: the 0-based index of the next mode
new_idx(m) == (index(valid_modes, m) + 1) % Len(valid_modes)

\* the run of consecutive no-argument set_mode calls after one more on t
cyc_after(t) ==
    IF cyc.tb = t /\ cyc.n >= 1 /\ cyc.n < MaxCycle
    THEN [cyc EXCEPT !.n = cyc.n + 1, !.prev = mode[t]]
    ELSE [tb |-> t, start |-> mode[t], n |-> 1, prev |-> mode[t],
          prev_old |-> None]

\* FormattedTB.set_mode
set_mode(t, m) ==
    /\ IF m = None
       THEN /\ mode' = [mode EXCEPT ![t] = valid_modes[new_idx(mode[t]) + 1]]
            /\ include_vars' =
                 [include_vars EXCEPT ![t] = (mode'[t] = valid_modes[3])]
            /\ raised' = "none"
            /\ cyc' = cyc_after(t)
       ELSE IF m \notin Modes
       THEN /\ raised' = "ValueError"
            /\ cyc' = IF cyc.tb = t THEN NoRun ELSE cyc
            /\ UNCHANGED <<mode, include_vars>>
       ELSE /\ mode' = [mode EXCEPT ![t] = m]
            /\ include_vars' = [include_vars EXCEPT ![t] = (m = valid_modes[3])]
            /\ raised' = "none"
            /\ cyc' = IF cyc.tb = t THEN NoRun ELSE cyc
    /\ UNCHANGED <<active_scheme_name, old_scheme, Colors, tb_offset, report, tog,
                   pdbvars, win, detail,
                   driver>>

\* FormattedTB.plain
plain(t) == set_mode(t, valid_modes[1])

\* FormattedTB.context
context(t) == set_mode(t, valid_modes[2])

\* FormattedTB.verbose
verbose(t) == set_mode(t, valid_modes[3])

-----------------------------------------------------------------------------
(* Reports *)

\* traceback.extract_tb: the entries of a chain of depth frames, outermost
\* first, each named by its position in the chain
extract_tb(depth) == [i \in 1..depth |-> i]

\* ListTB._format_list: one block per entry, in the order of the list; the
\* last one is written with the emphasized color roles
format_list(elist) ==
    [i \in 1..Len(elist) |-> [entry |-> elist[i], em |-> (i = Len(elist))]]

\* ListTB.text: the report of the traceback list elist (<<>> for None or [])
ListTB_text(t, elist) ==
    [kind |-> "List", by |-> t, colors |-> Colors[t],
     table |-> active_scheme_name, entries |-> Len(elist), vars |-> FALSE,
     blocks |-> format_list(elist), excline |-> TRUE, stderr |-> FALSE]

\* _fixed_getinnerframes: records[tb_offset:], the number of frame records
fixed_getinnerframes_count(depth, offset) == Max(depth - offset, 0)

\* VerboseTB.text, the loop over the records: one block per record, in the
\* order of the records; every block has its file link in filenameEm and
\* its error line in linenoEm
verbose_blocks(records) ==
    [i \in 1..Len(records) |-> [entry |-> records[i], em |-> TRUE]]

\* a render that goes on without records, and silently, when the frame
\* records cannot be obtained
VerboseTB_text_unguarded(t, depth, introspect_ok) ==
    [kind |-> "Verbose", by |-> t, colors |-> Colors[t],
     table |-> active_scheme_name,
     entries |-> IF introspect_ok
                 THEN fixed_getinnerframes_count(depth, tb_offset[t]) ELSE 0,
     vars |-> include_vars[t],
     blocks |-> IF introspect_ok
                THEN verbose_blocks(PySlice(extract_tb(depth), tb_offset[t],
                                            depth))
                ELSE <<>>,
     excline |-> TRUE, stderr |-> FALSE, records_ok |-> introspect_ok]

\* VerboseTB.text: the per-frame report, or the empty report '' when the
\* frame records cannot be obtained (records_ok: whether they could)
VerboseTB_text(t, depth, introspect_ok) ==
    IF ~introspect_ok
    THEN [kind |-> "Empty", by |-> t, colors |-> Colors[t],
          table |-> active_scheme_name, entries |-> 0, vars |-> FALSE,
          blocks |-> <<>>, excline |-> FALSE, stderr |-> TRUE,
          records_ok |-> FALSE]
    ELSE [kind |-> "Verbose", by |-> t, colors |-> Colors[t],
          table |-> active_scheme_name,
          entries |-> fixed_getinnerframes_count(depth, tb_offset[t]),
          vars |-> include_vars[t],
          blocks |-> verbose_blocks(PySlice(extract_tb(depth), tb_offset[t],
                                            depth)),
          excline |-> TRUE, stderr |-> FALSE, records_ok |-> TRUE]

\* FormattedTB.text / SyntaxTB.text: the mode in effect
effective_mode(t, m) == IF m = None THEN mode[t] ELSE m

\* FormattedTB.text (depth = number of chained frames of tb, 0 for tb = None)
FormattedTB_text(t, m, depth, introspect_ok) ==
    /\ IF effective_mode(t, m) \in verbose_modes /\ depth >= 2
       THEN /\ report' = VerboseTB_text(t, depth, introspect_ok)
            /\ raised' = "none"
       ELSE IF depth = 0
       THEN \* elist is None and len(elist) raises
            /\ raised' = "TypeError"
            /\ UNCHANGED report
       ELSE /\ report' = ListTB_text(t, IF depth > tb_offset[t]
                                        THEN PySlice(extract_tb(depth),
                                                     tb_offset[t], depth)
                                        ELSE extract_tb(depth))
            /\ raised' = "none"
    /\ UNCHANGED <<active_scheme_name, old_scheme, Colors, mode, include_vars,
                   tb_offset, tog, cyc, pdbvars, win, detail,
                   driver>>

\* SyntaxTB.text (lineno_known: value.lineno is not None)
SyntaxTB_text(t, m, depth, lineno_known) ==
    /\ IF effective_mode(t, m) \in verbose_modes /\ lineno_known
       THEN report' = [kind |-> "Syntax", by |-> t, colors |-> Colors[t],
                       table |-> active_scheme_name, entries |-> 0,
                       vars |-> FALSE, blocks |-> <<>>, excline |-> TRUE,
                       stderr |-> FALSE]
       ELSE report' = ListTB_text(t, extract_tb(depth))
    /\ raised' = "none"
    /\ UNCHANGED <<active_scheme_name, old_scheme, Colors, mode, include_vars,
                   tb_offset, tog, cyc, pdbvars, win, detail,
                   driver>>

\* AutoFormattedTB.__call__: handler.text(self, etype, evalue, tb), with
\* handler = SyntaxTB when etype is SyntaxError and FormattedTB otherwise;
\* what it raises and what it returns
handler_text(t, syntax, depth, introspect_ok, lineno_known) ==
    IF syntax
    THEN [raised |-> "none",
          report |-> IF mode[t] \in verbose_modes /\ lineno_known
                     THEN [kind |-> "Syntax", by |-> t, colors |-> Colors[t],
                           table |-> active_scheme_name, entries |-> 0,
                           vars |-> FALSE, blocks |-> <<>>, excline |-> TRUE,
                           stderr |-> FALSE]
                     ELSE ListTB_text(t, extract_tb(depth))]
    ELSE IF mode[t] \in verbose_modes /\ depth >= 2
    THEN [raised |-> "none", report |-> VerboseTB_text(t, depth, introspect_ok)]
    ELSE IF depth = 0
    THEN [raised |-> "TypeError", report |-> report]
    ELSE [raised |-> "none",
          report |-> ListTB_text(t, IF depth > tb_offset[t]
                                    THEN PySlice(extract_tb(depth),
                                                 tb_offset[t], depth)
                                    ELSE extract_tb(depth))]

\* AutoFormattedTB.__call__(etype, evalue, tb, out, tb_offset=off), up to
\* the statement that prints: with a per-call offset the instance's
\* tb_offset and the argument are swapped.  detail is the frame of the
\* call: the renderer, the instance's offset when the call began, whether a
\* per-call offset was given (given: tb_offset is not None)
call_begins(t, given, off) ==
    /\ detail.fn \in {"none", "called"}
    /\ detail' = [fn |-> "call", by |-> t, before |-> tb_offset[t],
                  given |-> given, saved |-> tb_offset[t]]
    /\ tb_offset' = IF given THEN [tb_offset EXCEPT ![t] = off]
                    ELSE tb_offset
    /\ UNCHANGED <<active_scheme_name, old_scheme, Colors, mode, include_vars,
                   report, raised, tog, cyc, pdbvars, win, driver>>

\* AutoFormattedTB.__call__, from the statement that prints to its end:
\* print >>out, handler.text(...), and then, with a per-call offset and when
\* nothing was raised, self.tb_offset = tb_offset (the saved value).
\* out_ok: out accepts the write (a closed file raises ValueError)
call_ends(syntax, depth, introspect_ok, lineno_known, out_ok) ==
    /\ detail.fn = "call"
    /\ LET t == detail.by
           r == handler_text(t, syntax, depth, introspect_ok, lineno_known)
       IN  /\ raised' = IF r.raised # "none" THEN r.raised
                        ELSE IF out_ok THEN "none" ELSE "ValueError"
           /\ report' = r.report
           /\ tb_offset' = IF detail.given /\ raised' = "none"
                           THEN [tb_offset EXCEPT ![t] = detail.saved]
                           ELSE tb_offset
    /\ detail' = [detail EXCEPT !.fn = "called"]
    /\ UNCHANGED <<active_scheme_name, old_scheme, Colors, mode, include_vars,
                   tog, cyc, pdbvars, win, driver>>

-----------------------------------------------------------------------------
(* Source windows *)

\* the padding line '\n'
Blank == 0

\* the empty string '' that linecache.getline returns for a missing line
NoText == -1

\* linecache.getlines: the lines of a file of nl lines
getlines(nl) == [k \in 1..nl |-> k]

\* linecache.getline
getline(nl, n) == IF 1 <= n /\ n <= nl THEN getlines(nl)[n] ELSE NoText

\* ['\n'] * n
Blanks(n) == [k \in 1..n |-> Blank]

\* _fixed_getinnerframes: the (lines, index) put into the record of a frame
\* whose error line is lnum
fixed_getinnerframes(nl, lnum, ctx) ==
    LET maybeStart == lnum - 1 - (ctx \div 2)
        start      == Max(maybeStart, 0)
        end        == start + ctx
        sliced     == PySlice(getlines(nl), start, end)
        fronted    == IF maybeStart < 0
                      THEN Blanks(-maybeStart) \o sliced ELSE sliced
        padded     == IF Len(fronted) < ctx
                      THEN fronted \o Blanks(ctx - Len(fronted)) ELSE fronted
    IN  [lines |-> padded, index |-> lnum - 1 - start, start |-> start]

\* _formatTracebackLines: one row per line, numbered from lnum - index
formatTracebackLines(lnum, idx, lines) ==
    [j \in 1..Len(lines) |->
        [num |-> (lnum - idx) + (j - 1), text |-> lines[j],
         arrow |-> ((lnum - idx) + (j - 1) = lnum)]]

\* Pdb.format_stack_entry: the source window of a stack entry
format_stack_entry(nl, entry_lineno, ctx) ==
    LET start0 == entry_lineno - 1 - (ctx \div 2)
        start1 == Max(start0, 0)
        start  == Min(start1, nl - ctx)
        lines  == PySlice(getlines(nl), start, start + ctx)
    IN  [lines |-> lines, index |-> entry_lineno - 1 - start, start |-> start,
         rows |-> [j \in 1..Len(lines) |->
                     [num |-> start + 1 + (j - 1), text |-> lines[j],
                      arrow |-> (start + 1 + (j - 1) = entry_lineno)]]]

\* a slice that reaches one line further
syntax_slice_wide(nl, err_lineno, ctx) ==
    PySlice(getlines(nl), (err_lineno - 1) - (ctx \div 2),
                          (err_lineno - 1) + (ctx \div 2) + 2)

\* SyntaxTB.text: the slice taken around the failing line, before padding
syntax_slice(nl, err_lineno, ctx) ==
    PySlice(getlines(nl), (err_lineno - 1) - (ctx \div 2),
                          (err_lineno - 1) + (ctx \div 2))

\* SyntaxTB.text: the window after the padding loop, and its index
syntax_window(nl, err_lineno, ctx) ==
    LET c      == ctx \div 2
        sliced == syntax_slice(nl, err_lineno, ctx)
    IN  [lines |-> sliced \o Blanks((c * 2 + 1) - Len(sliced)), index |-> c,
         start |-> (err_lineno - 1) - c]

NoWin == [fn |-> "none", nl |-> 0, lnum |-> 0, context |-> 0, lines |-> <<>>,
          index |-> 0, start |-> 0, rows |-> <<>>]

\* VerboseTB.text on one frame record: _fixed_getinnerframes, then
\* _formatTracebackLines
call_fixed_getinnerframes(nl, lnum, ctx) ==
    /\ win' = LET r == fixed_getinnerframes(nl, lnum, ctx)
              IN  [fn |-> "getinnerframes", nl |-> nl, lnum |-> lnum,
                   context |-> ctx, lines |-> r.lines, index |-> r.index,
                   start |-> r.start,
                   rows |-> formatTracebackLines(lnum, r.index, r.lines)]
    /\ UNCHANGED <<tbvars, pdbvars, detail, driver>>

\* Pdb.format_stack_entry on one stack entry
call_format_stack_entry(nl, lnum, ctx) ==
    /\ win' = LET r == format_stack_entry(nl, lnum, ctx)
              IN  [fn |-> "stack_entry", nl |-> nl, lnum |-> lnum,
                   context |-> ctx, lines |-> r.lines, index |-> r.index,
                   start |-> r.start, rows |-> r.rows]
    /\ UNCHANGED <<tbvars, pdbvars, detail, driver>>

\* SyntaxTB.text in a verbose mode: the padded window, then
\* _formatTracebackLines
call_syntax_window(nl, lnum, ctx) ==
    /\ win' = LET r == syntax_window(nl, lnum, ctx)
              IN  [fn |-> "syntax", nl |-> nl, lnum |-> lnum,
                   context |-> ctx, lines |-> r.lines, index |-> r.index,
                   start |-> r.start,
                   rows |-> formatTracebackLines(lnum, r.index, r.lines)]
    /\ UNCHANGED <<tbvars, pdbvars, detail, driver>>

\* SyntaxTB.text in a verbose mode, up to the padding loop: context =
\* context/2 and the slice of the file's lines
take_syntax_slice ==
    /\ detail.fn = "pending"
    /\ detail.call = "syntax_pad"
    /\ detail' = [fn |-> "padding", nl |-> detail.args.nl,
                  lnum |-> detail.args.lnum,
                  context |-> detail.args.ctx \div 2,
                  sliced |-> Len(syntax_slice(detail.args.nl, detail.args.lnum,
                                              detail.args.ctx)),
                  lines |-> syntax_slice(detail.args.nl, detail.args.lnum,
                                         detail.args.ctx)]
    /\ UNCHANGED <<tbvars, pdbvars, win, driver>>

\* SyntaxTB.text, one turn of the padding loop: while len(lines) <>
\* context*2 + 1: lines.append("\n").  The window is followed up to
\* 2 * MaxContext + 1 lines
pad_syntax_window ==
    /\ detail.fn = "padding"
    /\ Len(detail.lines) # detail.context * 2 + 1
    /\ Len(detail.lines) <= 2 * MaxContext
    /\ detail' = [detail EXCEPT !.lines = Append(@, Blank)]
    /\ UNCHANGED <<tbvars, pdbvars, win, driver>>

\* SyntaxTB.text: the padding loop ends, index = context
leave_padding_loop ==
    /\ detail.fn = "padding"
    /\ Len(detail.lines) = detail.context * 2 + 1
    /\ detail' = [detail EXCEPT !.fn = "padded"]
    /\ UNCHANGED <<tbvars, pdbvars, win, driver>>

-----------------------------------------------------------------------------
(* Interactive debugger session *)
(* Pdb builds on pdb.Pdb, bdb.Bdb and cmd.Cmd of the standard library; what *)
(* setup, forget, get_stack, do_up, do_down and do_where do there is part   *)
(* of the actions below.  Left out: cmd.Cmd.lastcmd, the readline completer *)
(* and the TextMate hook (_mate gives up at its first call where appscript  *)
(* cannot be imported), and the delivery of KeyboardInterrupt in the middle *)
(* of a command.  All frames are frames of one source file.                 *)

\* Pdb.lineno is None
NoLine == 0

\* Pdb.curframe is None
NoFrame == 0

\* print_stack_entry(..., context=3)
StackEntryContext == 3

\* print_stack_trace: print_stack_entry(frame_lineno, context=5)
WhereContext == 5

\* do_list: first = max(1, ... - 5)
ListBack == 5

\* do_list: last = first + 10
ListAhead == 10

\* the frame objects of the supervised program, by call depth
FrameIds == 1..MaxStack

\* the call stack of a live stop at call depth k, oldest frame first
LiveStack(k) == [i \in 1..k |-> i]

\* the traceback chains post_mortem may be given: frames j..k, oldest first
Chains == {[i \in 1..(k - j + 1) |-> j + i - 1] : j \in FrameIds, k \in FrameIds}
              \ {<<>>}

\* [(f, f.f_lineno) for f in frames]
with_lineno(frames) ==
    [i \in 1..Len(frames) |-> [frame |-> frames[i], lineno |-> f_lineno[frames[i]]]]

NoOut == [diag |-> "", lines |-> <<>>, entries |-> <<>>]

NoCmd == [name |-> "none", arg |-> [kind |-> "empty", a |-> 0, b |-> 0]]

NoListRun == [n |-> 0, prev_last |-> 0]

\* Pdb.interaction: setup(frame, traceback), then the stack is replaced by
\* the private frame stack when the attribute exists; pfs is its value
interaction(frames, pfs, kind) ==
    /\ stack' = IF pfs # <<>> THEN with_lineno(pfs) ELSE with_lineno(frames)
    /\ curindex' = Len(stack') - 1
    /\ curframe' = stack'[Len(stack')].frame
    /\ lineno' = NoLine
    /\ session' = kind
    /\ out' = NoOut
    /\ cmdline' = NoCmd
    /\ listrun' = NoListRun

\* a live stop (set_trace, breakpoint, step) at call depth k: bdb's get_stack
\* gives the frames from the bottom frame to the stopped one
live_stop(k) ==
    /\ session = "idle"
    /\ interaction(LiveStack(k), private_frame_stack, "live")
    /\ UNCHANGED <<private_frame_stack, nlines, f_lineno, breaks, tbvars, win, detail,
                   driver>>

\* a post_mortem that leaves the stack to setup: bdb's get_stack on the
\* failing frame, from the bottom frame of the program
post_mortem_from_bottom(chain) ==
    /\ session = "idle"
    /\ private_frame_stack' = chain
    /\ interaction(LiveStack(chain[Len(chain)]), <<>>, "postmortem")
    /\ UNCHANGED <<nlines, f_lineno, breaks, tbvars, win, detail,
                   driver>>

\* post_mortem(t), chain = the frames of t, t.tb_next, ...
post_mortem(chain) ==
    /\ session = "idle"
    /\ private_frame_stack' = chain
    /\ interaction(LiveStack(chain[Len(chain)]), chain, "postmortem")
    /\ UNCHANGED <<nlines, f_lineno, breaks, tbvars, win, detail,
                   driver>>

\* an up that wraps around to the newest frame at the oldest one
do_up_wrapping ==
    /\ session # "idle"
    /\ curindex' = IF curindex = 0 THEN Len(stack) - 1 ELSE curindex - 1
    /\ curframe' = stack[curindex' + 1].frame
    /\ out' = [NoOut EXCEPT !.entries =
                 <<format_stack_entry(nlines, stack[curindex' + 1].lineno,
                                      StackEntryContext)>>]
    /\ lineno' = NoLine
    /\ cmdline' = [NoCmd EXCEPT !.name = "up"]
    /\ listrun' = NoListRun
    /\ UNCHANGED <<stack, session, private_frame_stack, nlines, f_lineno, breaks,
                   tbvars, win, detail,
                   driver>>

\* Pdb.do_up (pdb.Pdb.do_up of the standard library, then the completer and
\* editor hooks, which touch none of the state modelled)
do_up ==
    /\ session # "idle"
    /\ IF curindex = 0
       THEN /\ out' = [NoOut EXCEPT !.diag = "*** Oldest frame"]
            /\ UNCHANGED <<curindex, curframe, lineno>>
       ELSE /\ curindex' = curindex - 1
            /\ curframe' = stack[curindex' + 1].frame
            /\ out' = [NoOut EXCEPT !.entries =
                         <<format_stack_entry(nlines, stack[curindex' + 1].lineno,
                                              StackEntryContext)>>]
            /\ lineno' = NoLine
    /\ cmdline' = [NoCmd EXCEPT !.name = "up"]
    /\ listrun' = NoListRun
    /\ UNCHANGED <<stack, session, private_frame_stack, nlines, f_lineno, breaks,
                   tbvars, win, detail,
                   driver>>

\* Pdb.do_down (pdb.Pdb.do_down of the standard library, then the hooks)
do_down ==
    /\ session # "idle"
    /\ IF curindex + 1 = Len(stack)
       THEN /\ out' = [NoOut EXCEPT !.diag = "*** Newest frame"]
            /\ UNCHANGED <<curindex, curframe, lineno>>
       ELSE /\ curindex' = curindex + 1
            /\ curframe' = stack[curindex' + 1].frame
            /\ out' = [NoOut EXCEPT !.entries =
                         <<format_stack_entry(nlines, stack[curindex' + 1].lineno,
                                              StackEntryContext)>>]
            /\ lineno' = NoLine
    /\ cmdline' = [NoCmd EXCEPT !.name = "down"]
    /\ listrun' = NoListRun
    /\ UNCHANGED <<stack, session, private_frame_stack, nlines, f_lineno, breaks,
                   tbvars, win, detail,
                   driver>>

\* Pdb.do_where: print_stack_trace over stack[:curindex+1]
do_where ==
    /\ session # "idle"
    /\ out' = [NoOut EXCEPT !.entries =
                 [i \in 1..(curindex + 1) |->
                    format_stack_entry(nlines, stack[i].lineno, WhereContext)]]
    /\ cmdline' = [NoCmd EXCEPT !.name = "where"]
    /\ listrun' = NoListRun
    /\ UNCHANGED <<stack, curindex, curframe, lineno, session,
                   private_frame_stack, nlines, f_lineno, breaks, tbvars, win, detail,
                   driver>>

\* the command loop returns after the command name: interaction ends with
\* forget()
forget(name) ==
    /\ session' = "idle"
    /\ stack' = <<>>
    /\ curindex' = 0
    /\ curframe' = NoFrame
    /\ lineno' = NoLine
    /\ out' = NoOut
    /\ cmdline' = [NoCmd EXCEPT !.name = name]
    /\ listrun' = NoListRun

\* the command loop returns (continue)
do_continue ==
    /\ session # "idle"
    /\ forget("continue")
    /\ UNCHANGED <<private_frame_stack, nlines, f_lineno, breaks, tbvars, win, detail,
                   driver>>

\* what the argument of list evaluates to: nothing typed, an integer, a
\* pair of integers, or something else ("bad": eval raises, the value is no
\* number, the tuple has not two items)
ArgInts == (-1)..MaxArg

ListArgs ==
    {[kind |-> "empty", a |-> 0, b |-> 0]}
    \cup {[kind |-> "int", a |-> x, b |-> 0] : x \in ArgInts}
    \cup {[kind |-> "pair", a |-> x, b |-> y] : x \in ArgInts, y \in ArgInts}
    \cup {[kind |-> k, a |-> 0, b |-> 0] : k \in {"evalerror", "string", "triple"}}

\* a list that starts again at the cursor line instead of after it
list_range_overlapping(arg, cursor, curline) ==
    IF arg.kind = "empty"
    THEN LET first == IF cursor = NoLine THEN Max(1, curline - ListBack)
                      ELSE cursor
         IN  [err |-> FALSE, first |-> first, last |-> first + ListAhead]
    ELSE IF arg.kind = "int"
    THEN [err |-> FALSE, first |-> Max(1, arg.a - ListBack),
          last |-> Max(1, arg.a - ListBack) + ListAhead]
    ELSE IF arg.kind = "pair"
    THEN [err |-> FALSE, first |-> arg.a,
          last |-> IF arg.b < arg.a THEN arg.a + arg.b ELSE arg.b]
    ELSE [err |-> TRUE, first |-> 0, last |-> 0]

\* a list that always takes the second number as the end line
list_range_absolute(arg, cursor, curline) ==
    IF arg.kind = "empty"
    THEN LET first == IF cursor = NoLine THEN Max(1, curline - ListBack)
                      ELSE cursor + 1
         IN  [err |-> FALSE, first |-> first, last |-> first + ListAhead]
    ELSE IF arg.kind = "int"
    THEN [err |-> FALSE, first |-> Max(1, arg.a - ListBack),
          last |-> Max(1, arg.a - ListBack) + ListAhead]
    ELSE IF arg.kind = "pair"
    THEN [err |-> FALSE, first |-> arg.a, last |-> arg.b]
    ELSE [err |-> TRUE, first |-> 0, last |-> 0]

\* a list that takes a tuple of three as a pair
list_range_lenient(arg, cursor, curline) ==
    IF arg.kind = "empty"
    THEN LET first == IF cursor = NoLine THEN Max(1, curline - ListBack)
                      ELSE cursor + 1
         IN  [err |-> FALSE, first |-> first, last |-> first + ListAhead]
    ELSE IF arg.kind = "int"
    THEN [err |-> FALSE, first |-> Max(1, arg.a - ListBack),
          last |-> Max(1, arg.a - ListBack) + ListAhead]
    ELSE IF arg.kind \in {"pair", "triple"}
    THEN [err |-> FALSE, first |-> arg.a,
          last |-> IF arg.b < arg.a THEN arg.a + arg.b ELSE arg.b]
    ELSE [err |-> TRUE, first |-> 0, last |-> 0]

\* Pdb.do_list: the first and last line asked for, or the argument error
list_range(arg, cursor, curline) ==
    IF arg.kind = "empty"
    THEN LET first == IF cursor = NoLine THEN Max(1, curline - ListBack)
                      ELSE cursor + 1
         IN  [err |-> FALSE, first |-> first, last |-> first + ListAhead]
    ELSE IF arg.kind = "int"
    THEN [err |-> FALSE, first |-> Max(1, arg.a - ListBack),
          last |-> Max(1, arg.a - ListBack) + ListAhead]
    ELSE IF arg.kind = "pair"
    THEN [err |-> FALSE, first |-> arg.a,
          last |-> IF arg.b < arg.a THEN arg.a + arg.b ELSE arg.b]
    ELSE [err |-> TRUE, first |-> 0, last |-> 0]

\* Pdb.do_list: the loop over range(first, last+1), which stops at the
\* first missing line; acc is src
RECURSIVE list_lines(_, _, _, _, _)
list_lines(nl, n, last, curline, acc) ==
    IF n > last \/ getline(nl, n) = NoText
    THEN acc
    ELSE list_lines(nl, n + 1, last, curline,
                    Append(acc, [num |-> n, text |-> getline(nl, n),
                                 arrow |-> (n = curline)]))

\* the run of no-argument list commands after one more list with arg
listrun_after(arg) ==
    IF arg.kind # "empty" THEN NoListRun
    ELSE IF lineno = NoLine THEN [n |-> 1, prev_last |-> 0]
    ELSE IF listrun.n >= 1
    THEN [n |-> Min(listrun.n + 1, MaxListRun),
          prev_last |-> IF out.lines # <<>>
                        THEN out.lines[Len(out.lines)].num
                        ELSE listrun.prev_last]
    ELSE NoListRun

\* Pdb.do_list
do_list(arg) ==
    /\ session # "idle"
    /\ LET r == list_range(arg, lineno, f_lineno[curframe])
       IN  IF r.err
           THEN /\ out' = [NoOut EXCEPT !.diag = "*** Error in argument"]
                /\ UNCHANGED lineno
           ELSE LET src == list_lines(nlines, r.first, r.last,
                                      f_lineno[curframe], <<>>)
                IN  /\ out' = [NoOut EXCEPT !.lines = src]
                    /\ lineno' = IF src # <<>> THEN src[Len(src)].num
                                  ELSE lineno
    /\ cmdline' = [name |-> "list", arg |-> arg]
    /\ listrun' = listrun_after(arg)
    /\ UNCHANGED <<stack, curindex, curframe, session, private_frame_stack,
                   nlines, f_lineno, breaks, tbvars, win, detail,
                   driver>>

-----------------------------------------------------------------------------
(* Breakpoints and the gutter of a source line *)
(* The breakpoint commands are those of pdb.Pdb and bdb.Bdb, which Pdb      *)
(* inherits: break and tbreak make a Breakpoint, which appends itself to    *)
(* Breakpoint.bpbynumber and to Breakpoint.bplist[file, line]; clear        *)
(* deletes the breakpoints of a line; enable and disable set               *)
(* Breakpoint.enabled.  All breakpoints are in the one source file.  A      *)
(* gutter is modelled by its characters.                                    *)

\* the line numbers a gutter is written for: one for every number of digits
GutterLines == {Pow10(k) : k \in 0..MaxDigits}

\* the lines breakpoints are made at: a short line number and two long ones
BreakLines == {Pow10(k) : k \in {0, MaxDigits - 4, MaxDigits - 2}}

\* Breakpoint.bpbynumber[n] = None: the breakpoint was deleted
DeletedBreak == [line |-> 0, enabled |-> FALSE, deleted |-> TRUE]

\* the values bdb.Breakpoint.next may have when the session begins
FirstNumbers == {Pow10(k) : k \in 0..(MaxBpDigits - 1)}

\* numbers_width = 7 in Pdb.__format_line
format_line_width == 7

\* INDENT_SIZE - 1 in _formatTracebackLines
numbers_width == 7

\* the number of the breakpoint bpbynumber[i]
bp_number(i) == breaks.first + i - 1

\* Bdb.get_breaks(filename, lineno): the breakpoints at a line, oldest first
get_breaks(line) ==
    IF line \in DOMAIN breaks.bplist THEN breaks.bplist[line] ELSE <<>>

\* Bdb.get_file_breaks(filename): the lines with a breakpoint
get_file_breaks == {l \in DOMAIN breaks.bplist : breaks.bplist[l] # <<>>}

\* Bdb.set_break(filename, line): a new Breakpoint, enabled
set_break(line) ==
    /\ Len(breaks.bpbynumber) < MaxBreaks
    /\ breaks' = [breaks EXCEPT
          !.bpbynumber = Append(@, [line |-> line, enabled |-> TRUE,
                                    deleted |-> FALSE]),
          !.bplist = [l \in DOMAIN @ \cup {line} |->
                        IF l = line
                        THEN Append(get_breaks(line),
                                    bp_number(Len(breaks.bpbynumber) + 1))
                        ELSE @[l]]]
    /\ detail' = NoDetail
    /\ UNCHANGED <<tbvars, nlines, f_lineno, stack, curindex, curframe, lineno,
                   session, private_frame_stack, out, cmdline, listrun, win,
                   driver>>

\* Bdb.clear_break(filename, line): deleteMe() on every breakpoint of the line
clear_break(line) ==
    /\ line \in get_file_breaks
    /\ breaks' = [breaks EXCEPT
          !.bpbynumber = [i \in DOMAIN @ |->
                            IF @[i].line = line THEN DeletedBreak ELSE @[i]],
          !.bplist = [@ EXCEPT ![line] = <<>>]]
    /\ detail' = NoDetail
    /\ UNCHANGED <<tbvars, nlines, f_lineno, stack, curindex, curframe, lineno,
                   session, private_frame_stack, out, cmdline, listrun, win,
                   driver>>

\* pdb.Pdb.do_enable / do_disable on the breakpoint bpbynumber[i]
set_enabled(i, flag) ==
    /\ i \in DOMAIN breaks.bpbynumber
    /\ ~breaks.bpbynumber[i].deleted
    /\ breaks' = [breaks EXCEPT !.bpbynumber[i].enabled = flag]
    /\ detail' = NoDetail
    /\ UNCHANGED <<tbvars, nlines, f_lineno, stack, curindex, curframe, lineno,
                   session, private_frame_stack, out, cmdline, listrun, win,
                   driver>>

\* whether the breakpoint with the number n is enabled
bp_enabled(n) == breaks.bpbynumber[n - breaks.first + 1].enabled

\* an arrow marker of one fixed form
format_line_marker_fixed(pad) == <<"-", ">", " ">>

\* Pdb.__format_line: the marker of the line with the arrow
format_line_marker(pad) ==
    IF pad >= 3 THEN Repeat("-", pad - 3) \o <<"-", ">", " ">>
    ELSE IF pad = 2 THEN <<">", " ">>
    ELSE IF pad = 1 THEN <<">">>
    ELSE <<>>

\* a gutter that shows the oldest breakpoint of the line
format_line_oldest(line, arrow) ==
    LET bps == IF line \in get_file_breaks THEN get_breaks(line) ELSE <<>>
        has_bp == bps # <<>>
        bp_mark == IF has_bp THEN str(bps[1]) ELSE <<>>
    IN  [fn |-> "format_line", site |-> "debugger", lineno |-> line,
         arrow |-> arrow, bp_mark |-> bp_mark,
         bp_mark_color |-> IF ~has_bp THEN ""
                           ELSE IF bp_enabled(bps[1])
                           THEN "breakpoint_enabled"
                           ELSE "breakpoint_disabled",
         num |-> IF arrow
                 THEN format_line_marker(format_line_width - Len(str(line))
                                           - Len(bp_mark)) \o str(line)
                 ELSE PadTo(format_line_width - Len(bp_mark), str(line))]

\* Pdb.__format_line(tpl_line, filename, lineno, line, arrow): the
\* breakpoint mark, the color role it is written in and the number column
format_line(line, arrow) ==
    LET bps == IF line \in get_file_breaks THEN get_breaks(line) ELSE <<>>
        has_bp == bps # <<>>
        bp_mark == IF has_bp THEN str(bps[Len(bps)]) ELSE <<>>
    IN  [fn |-> "format_line", site |-> "debugger", lineno |-> line,
         arrow |-> arrow, bp_mark |-> bp_mark,
         bp_mark_color |-> IF ~has_bp THEN ""
                           ELSE IF bp_enabled(bps[Len(bps)])
                           THEN "breakpoint_enabled"
                           ELSE "breakpoint_disabled",
         num |-> IF arrow
                 THEN format_line_marker(format_line_width - Len(str(line))
                                           - Len(bp_mark)) \o str(line)
                 ELSE PadTo(format_line_width - Len(bp_mark), str(line))]

\* _formatTracebackLines: the marker of the line with the error
traceback_marker(pad) ==
    IF pad >= 3 THEN Repeat("-", pad - 3) \o <<"-", ">", " ">>
    ELSE IF pad = 2 THEN <<">", " ">>
    ELSE IF pad = 1 THEN <<">">>
    ELSE <<>>

\* _formatTracebackLines: the number column of the line i of a window whose
\* error line is lnum
traceback_num(i, lnum) ==
    [fn |-> "format_line", site |-> "traceback", lineno |-> i,
     arrow |-> (i = lnum), bp_mark |-> <<>>, bp_mark_color |-> "",
     num |-> IF i = lnum
             THEN traceback_marker(numbers_width - Len(str(i))) \o str(i)
             ELSE PadTo(numbers_width, str(i))]

\* a line of do_list or of format_stack_entry is written
call_format_line(line, arrow) ==
    /\ detail' = format_line(line, arrow)
    /\ UNCHANGED <<tbvars, pdbvars, win, driver>>

\* a line of a traceback window is written
call_traceback_num(i, lnum) ==
    /\ detail' = traceback_num(i, lnum)
    /\ UNCHANGED <<tbvars, pdbvars, win, driver>>

-----------------------------------------------------------------------------
(* The top-level driver *)
(* main runs the script under the debugger in a loop.  bdb.Bdb.run of the  *)
(* standard library resets the debugger, traces the script and swallows    *)
(* BdbQuit; pdb.Pdb.do_quit sets _user_requested_quit and calls set_quit,  *)
(* after which the tracer raises BdbQuit at the next trace event.  These   *)
(* are part of the actions below.  driver.pc is where main stands: "off"   *)
(* before it is called, "loop" at the top of its while loop, "running"     *)
(* while the script runs, "stopped" and "postmortem" in the command loop   *)
(* of a live stop and of post_mortem, "caught" at the start of the last    *)
(* except clause, "reported" after its call of defaultTB, "terminated"     *)
(* after the loop.  driver.quit_given records that a quit command was      *)
(* given; driver.outcome how the last run of the script ended ("none"      *)
(* while it runs), driver.tb the frames of the traceback main caught,      *)
(* driver.reported and driver.pm that the report was written and that      *)
(* post_mortem was called since the run began.                             *)

\* main up to its loop
main ==
    /\ driver.pc = "off"
    /\ driver' = [driver EXCEPT !.pc = "loop"]
    /\ UNCHANGED <<tbvars, pdbvars, win, detail>>

\* what defaultTB(etype, value, tb) writes for a traceback of the frames
\* chain: AutoFormattedTB.__call__ without tb_offset, on the renderer tb1
defaultTB_call(chain, introspect_ok) ==
    handler_text("tb1", FALSE, Len(chain), introspect_ok, TRUE).report

\* main: pdb._runscript(mainpyfile), up to the start of the script;
\* bdb.Bdb.run begins with reset(), which ends with forget()
runscript ==
    /\ driver.pc = "loop"
    /\ driver.starts < MaxStarts
    /\ driver' = [driver EXCEPT !.pc = "running",
                                !.user_requested_quit = FALSE,
                                !.starts = driver.starts + 1,
                                !.outcome = "none", !.tb = <<>>,
                                !.reported = FALSE, !.pm = FALSE]
    /\ forget("run")
    /\ UNCHANGED <<private_frame_stack, nlines, f_lineno, breaks, tbvars, win, detail>>

\* the script reaches a breakpoint or ends a step at call depth k
script_stops(k) ==
    /\ driver.pc = "running"
    /\ interaction(LiveStack(k), private_frame_stack, "live")
    /\ driver' = [driver EXCEPT !.pc = "stopped"]
    /\ UNCHANGED <<private_frame_stack, nlines, f_lineno, breaks, tbvars, win, detail>>

\* continue, step or next at a live stop
resume ==
    /\ driver.pc = "stopped"
    /\ forget("continue")
    /\ driver' = [driver EXCEPT !.pc = "running"]
    /\ UNCHANGED <<private_frame_stack, nlines, f_lineno, breaks, tbvars, win, detail>>

\* quit at a live stop: BdbQuit ends the script, _runscript returns and
\* main breaks on _user_requested_quit (or on BdbQuit)
quit_stopped ==
    /\ driver.pc = "stopped"
    /\ forget("quit")
    /\ driver' = [driver EXCEPT !.pc = "terminated",
                                !.user_requested_quit = TRUE,
                                !.quit_given = TRUE,
                                !.outcome = "quit"]
    /\ UNCHANGED <<private_frame_stack, nlines, f_lineno, breaks, tbvars, win, detail>>

\* run or restart at a live stop: Restart leaves the command loop, the
\* tracer and _runscript (interaction does not reach its forget()), and
\* main goes round its loop
script_restarts ==
    /\ driver.pc = "stopped"
    /\ session' = "idle"
    /\ cmdline' = [NoCmd EXCEPT !.name = "restart"]
    /\ listrun' = NoListRun
    /\ driver' = [driver EXCEPT !.pc = "loop", !.outcome = "restart"]
    /\ UNCHANGED <<stack, curindex, curframe, lineno, out,
                   private_frame_stack, nlines, f_lineno, breaks, tbvars, win, detail>>

\* the script runs to its end: _runscript returns without a quit request
\* and main goes round its loop
script_ends ==
    /\ driver.pc = "running"
    /\ driver' = [driver EXCEPT !.pc = "loop", !.outcome = "finished"]
    /\ UNCHANGED <<tbvars, pdbvars, win, detail>>

\* a SystemExit handler that goes on to the post-mortem of the last clause
script_exits_into_postmortem(chain, introspect_ok) ==
    /\ driver.pc = "running"
    /\ report' = defaultTB_call(chain, introspect_ok)
    /\ raised' = "none"
    /\ driver' = [driver EXCEPT !.pc = "reported", !.outcome = "exit",
                                !.tb = chain, !.reported = TRUE]
    /\ UNCHANGED <<active_scheme_name, old_scheme, Colors, mode, include_vars,
                   tb_offset, tog, cyc, pdbvars, win, detail>>

\* the script leaves by SystemExit with a traceback of the frames chain:
\* main prints the exit status with ultraTB.print_exc, which writes the
\* report of defaultTB, and goes round its loop
script_exits(chain, introspect_ok) ==
    /\ driver.pc = "running"
    /\ report' = defaultTB_call(chain, introspect_ok)
    /\ raised' = "none"
    /\ driver' = [driver EXCEPT !.pc = "loop", !.outcome = "exit",
                                !.reported = TRUE]
    /\ UNCHANGED <<active_scheme_name, old_scheme, Colors, mode, include_vars,
                   tb_offset, tog, cyc, pdbvars, win, detail>>

\* the script raises another exception: main's last except clause takes
\* sys.exc_info(); chain = the frames of tb
script_raises(chain) ==
    /\ driver.pc = "running"
    /\ driver' = [driver EXCEPT !.pc = "caught", !.outcome = "raised",
                                !.tb = chain]
    /\ UNCHANGED <<tbvars, pdbvars, win, detail>>

\* main's last except clause: tbtools.defaultTB(etype, value, tb)
report_uncaught(introspect_ok) ==
    /\ driver.pc = "caught"
    /\ report' = defaultTB_call(driver.tb, introspect_ok)
    /\ raised' = "none"
    /\ driver' = [driver EXCEPT !.pc = "reported", !.reported = TRUE]
    /\ UNCHANGED <<active_scheme_name, old_scheme, Colors, mode, include_vars,
                   tb_offset, tog, cyc, pdbvars, win, detail>>

\* main's last except clause: post_mortem(tb)
enter_postmortem ==
    /\ driver.pc = "reported"
    /\ private_frame_stack' = driver.tb
    /\ interaction(LiveStack(driver.tb[Len(driver.tb)]), driver.tb,
                   "postmortem")
    /\ driver' = [driver EXCEPT !.pc = "postmortem", !.pm = TRUE]
    /\ UNCHANGED <<nlines, f_lineno, breaks, tbvars, win, detail>>

\* a command that ends the command loop of post_mortem (continue, step,
\* next, quit): interaction and post_mortem return and main goes round its
\* loop; do_quit has set _user_requested_quit
leave_postmortem(name) ==
    /\ driver.pc = "postmortem"
    /\ forget(name)
    /\ driver' = [driver EXCEPT
                     !.pc = "loop",
                     !.user_requested_quit = (@ \/ name = "quit"),
                     !.quit_given = (@ \/ name = "quit")]
    /\ UNCHANGED <<private_frame_stack, nlines, f_lineno, breaks, tbvars, win, detail>>

-----------------------------------------------------------------------------
(* The replacement excepthook *)
(* detail is the frame of the call: the exception type by its name, the    *)
(* frames of the traceback (<<>> for None), what the two probes of the     *)
(* renderer find, whether sys.stdout is closed and whether it is a         *)
(* terminal; pc is where the hook stands, reported and pm that the report  *)
(* was written and that post_mortem was called.                            *)

\* the exception types the hook tells apart, and one other
HookTypes == {"BdbQuit", "SyntaxError", "DistributionNotFound", "ValueError"}

\* the calls of the hook
HookCalls ==
    {[fn |-> "excepthook", pc |-> "called", etype |-> e, tb |-> tb,
      introspect_ok |-> ok, lineno_known |-> known, closed |-> closed,
      isatty |-> isatty, reported |-> FALSE, pm |-> FALSE] :
        e \in HookTypes, tb \in Chains \cup {<<>>}, ok \in BOOLEAN,
        known \in BOOLEAN, closed \in BOOLEAN, isatty \in BOOLEAN}

\* excepthook: if etype is bdb.BdbQuit: return
hook_ignores_quit ==
    /\ detail.fn = "excepthook"
    /\ detail.pc = "called"
    /\ detail.etype = "BdbQuit"
    /\ detail' = [detail EXCEPT !.pc = "returned"]
    /\ UNCHANGED <<tbvars, pdbvars, win, driver>>

\* excepthook: defaultTB(etype, value, tb)
hook_reports ==
    /\ detail.fn = "excepthook"
    /\ detail.pc = "called"
    /\ detail.etype # "BdbQuit"
    /\ LET r == handler_text("tb1", detail.etype = "SyntaxError",
                             Len(detail.tb), detail.introspect_ok,
                             detail.lineno_known)
       IN  /\ raised' = r.raised
           /\ report' = r.report
           /\ detail' = IF r.raised = "none"
                        THEN [detail EXCEPT !.pc = "reported",
                                            !.reported = TRUE]
                        ELSE [detail EXCEPT !.pc = "raised"]
    /\ UNCHANGED <<active_scheme_name, old_scheme, Colors, mode, include_vars,
                   tb_offset, tog, cyc, pdbvars, win, driver>>

\* excepthook: whether the post-mortem session is entered
hook_wants_postmortem ==
    /\ detail.tb # <<>>
    /\ ~detail.closed
    /\ detail.isatty
    /\ detail.etype # "DistributionNotFound"

\* excepthook: Debugger.post_mortem(tb)
hook_enters_postmortem ==
    /\ detail.fn = "excepthook"
    /\ detail.pc = "reported"
    /\ hook_wants_postmortem
    /\ private_frame_stack' = detail.tb
    /\ interaction(LiveStack(detail.tb[Len(detail.tb)]), detail.tb,
                   "postmortem")
    /\ detail' = [detail EXCEPT !.pc = "postmortem", !.pm = TRUE]
    /\ UNCHANGED <<nlines, f_lineno, breaks, tbvars, win, driver>>

\* excepthook returns: without post_mortem, or when the command loop of
\* post_mortem is left
hook_returns ==
    /\ detail.fn = "excepthook"
    /\ \/ /\ detail.pc = "reported"
          /\ ~hook_wants_postmortem
          /\ UNCHANGED pdbvars
       \/ /\ detail.pc = "postmortem"
          /\ forget("continue")
          /\ UNCHANGED <<private_frame_stack, nlines, f_lineno, breaks>>
    /\ detail' = [detail EXCEPT !.pc = "returned"]
    /\ UNCHANGED <<tbvars, win, driver>>

-----------------------------------------------------------------------------
(* Syntax error reports: the source line and the caret line *)

\* a character of a source line: a non-space character, a blank, a tab
Chars == {"x", " ", "\t"}

\* str.isspace for one character
isspace(c) == c \in {" ", "\t"}

\* the source line texts a SyntaxError may carry
SourceLines == UNION {[1..n -> Chars] : n \in 0..MaxLineLen}

\* the SyntaxError values: args = (msg, (filename, lineno, offset, line)),
\* where lineno, offset and line may each be None
SyntaxValues ==
    [lineno_known : BOOLEAN, has_offset : BOOLEAN, offset : 0..(MaxLineLen + 1),
     has_line : BOOLEAN, line : SourceLines]

\* ListTB._format_exception_only: the i its while loop ends with, the number
\* of leading whitespace characters of line
leading_space(line) ==
    CHOOSE i \in 0..Len(line) :
        /\ \A k \in 1..i : isspace(line[k])
        /\ (i = Len(line) \/ ~isspace(line[i + 1]))

\* the number of trailing whitespace characters of line
trailing_space(line) ==
    CHOOSE i \in 0..Len(line) :
        /\ \A k \in 1..i : isspace(line[Len(line) + 1 - k])
        /\ (i = Len(line) \/ ~isspace(line[Len(line) - i]))

\* str.strip
strip(line) ==
    IF leading_space(line) = Len(line) THEN <<>>
    ELSE SubSeq(line, leading_space(line) + 1, Len(line) - trailing_space(line))

\* '    '
Indent4 == <<" ", " ", " ", " ">>

\* ListTB._format_exception_only: the caret line for line and offset
caret_line(line, offset) ==
    LET before == PySlice(line, leading_space(line), offset - 1)
    IN  Indent4
        \o [k \in 1..Len(before) |->
               IF isspace(before[k]) THEN before[k] ELSE " "]
        \o <<"^">>

NoTextLine == [present |-> FALSE, text |-> <<>>]

\* ListTB._format_exception_only for a SyntaxError value v: the source line
\* and the caret line it appends ('%d' % lineno raises for lineno None)
format_exception_only(v) ==
    IF ~v.lineno_known
    THEN [raised |-> "TypeError", srcline |-> NoTextLine, caret |-> NoTextLine]
    ELSE [raised |-> "none",
          srcline |-> IF v.has_line
                      THEN [present |-> TRUE, text |-> Indent4 \o strip(v.line)]
                      ELSE NoTextLine,
          caret |-> IF v.has_line /\ v.has_offset
                    THEN [present |-> TRUE,
                          text |-> caret_line(v.line, v.offset)]
                    ELSE NoTextLine]

\* SyntaxTB.text, the lines taken from the value: in a verbose mode with a
\* known line number the report is head, source window and exception line,
\* and _format_exception_only is not called
syntax_report(m, v) ==
    IF m \in verbose_modes /\ v.lineno_known
    THEN [raised |-> "none", srcline |-> NoTextLine, caret |-> NoTextLine]
    ELSE format_exception_only(v)

\* SyntaxTB.text for the SyntaxError value v, in the mode m in effect
call_syntax_report ==
    /\ detail.fn = "pending"
    /\ detail.call = "syntax_report"
    /\ detail' = LET m == detail.args.m
                     v == detail.args.v
                     r == syntax_report(m, v)
                 IN  [fn |-> "syntax_report", mode |-> m, value |-> v,
                      raised |-> r.raised, srcline |-> r.srcline,
                      caret |-> r.caret]
    /\ UNCHANGED <<tbvars, pdbvars, win, driver>>

-----------------------------------------------------------------------------
(* Name extractor: the names on a frame's error line *)

\* keyword.kwlist, as far as the tokens of the model go
kwlist == {"if"}

NAME(string) == [type |-> "NAME", string |-> string]

OP(string) == [type |-> "OP", string |-> string]

NEWLINE == [type |-> "NEWLINE", string |-> "\n"]

\* the tokens the tokenizer may hand to tokeneater
Tokens == {NAME("a"), NAME("b"), NAME("if"), OP("."), OP("+"), NEWLINE}

\* the token sequences of the lines a.b.c + foo(bar) and
\* a.b.c + foo(bar) + bar
ExampleLine ==
    <<NAME("a"), OP("."), NAME("b"), OP("."), NAME("c"), OP("+"), NAME("foo"),
      OP("("), NAME("bar"), OP(")"), NEWLINE>>

ExampleLineTwice ==
    <<NAME("a"), OP("."), NAME("b"), OP("."), NAME("c"), OP("+"), NAME("foo"),
      OP("("), NAME("bar"), OP(")"), OP("+"), NAME("bar"), NEWLINE>>

\* the token sequences of the error lines
TokenLines ==
    UNION {[1..n -> Tokens] : n \in 0..MaxTokens}
        \cup {ExampleLine, ExampleLineTwice}

\* seq with its last element replaced by x
SetLast(seq, x) == [seq EXCEPT ![Len(seq)] = x]

\* VerboseTB.text: tokenize.tokenize(linereader, tokeneater), from token k of
\* toks on, with the names list and tokeneater.name_cont as they stand; the
\* names list and name_cont when the tokenizer stops (NEWLINE raises
\* IndexError)
RECURSIVE tokeneater(_, _, _, _)
tokeneater(toks, k, names, name_cont) ==
    IF k > Len(toks) THEN [names |-> names, name_cont |-> name_cont]
    ELSE LET tok == toks[k]
         IN  IF tok.string = "." /\ names # <<>>
             THEN tokeneater(toks, k + 1,
                             SetLast(names, names[Len(names)] \o "."), TRUE)
             ELSE IF tok.type = "NAME" /\ tok.string \notin kwlist
             THEN IF name_cont
                  THEN tokeneater(toks, k + 1,
                                  SetLast(names, names[Len(names)] \o tok.string),
                                  FALSE)
                  ELSE tokeneater(toks, k + 1, Append(names, tok.string),
                                  name_cont)
             ELSE IF tok.type = "NEWLINE"
             THEN [names |-> names, name_cont |-> name_cont]
             ELSE tokeneater(toks, k + 1, names, name_cont)

\* a pruning that keeps the last occurrence of every element
RECURSIVE uniq_last(_)
uniq_last(elems) ==
    IF elems = <<>> THEN <<>>
    ELSE IF \E j \in 2..Len(elems) : elems[j] = elems[1]
    THEN uniq_last(Tail(elems))
    ELSE <<elems[1]>> \o uniq_last(Tail(elems))

\* uniq_stable: the loop over elems, with unique as built so far
RECURSIVE uniq_loop(_, _)
uniq_loop(elems, unique) ==
    IF elems = <<>> THEN unique
    ELSE IF \E j \in 1..Len(unique) : unique[j] = elems[1]
    THEN uniq_loop(Tail(elems), unique)
    ELSE uniq_loop(Tail(elems), Append(unique, elems[1]))

\* uniq_stable
uniq_stable(elems) == uniq_loop(elems, <<>>)

\* VerboseTB.text at the top of the loop body of a record: names = [] and
\* tokeneater.name_cont = False, whatever the record before left in st
fresh_tokeneater(st) == [names |-> <<>>, name_cont |-> FALSE]

\* the tokeneater state before the first record
NoNames == [names |-> <<>>, name_cont |-> FALSE]

\* VerboseTB.text for one record whose error line is toks, st being what
\* the record before left: the tokenizer run
names_of_line(toks, st) ==
    tokeneater(toks, 1, fresh_tokeneater(st).names,
               fresh_tokeneater(st).name_cont)

\* the name extractor run on the error line of a record, and run again on
\* the same line for the next record, which stands at that line too
call_name_extractor ==
    /\ detail.fn = "pending"
    /\ detail.call = "names"
    /\ detail' = LET toks   == detail.args.toks
                     first  == names_of_line(toks, NoNames)
                     second == names_of_line(toks, first)
                 IN  [fn |-> "names", tokens |-> toks,
                      names |-> first.names,
                      unique |-> uniq_stable(first.names),
                      again |-> uniq_stable(second.names)]
    /\ UNCHANGED <<tbvars, pdbvars, win, driver>>

-----------------------------------------------------------------------------
(* Verbose render: the values of a frame's arguments and names *)
(* Left out: a failure of inspect.getargvalues, frames whose function name *)
(* is '?', and records without source lines (index None).                  *)

\* the unique names of the error line of every frame of a render
line_names == <<"p", "q.r">>

\* name_full.split('.', 1)[0]
name_base(name_full) == IF name_full = "q.r" THEN "q" ELSE name_full

\* what happens where a frame's values are converted to text; site 0 is
\* inspect.formatargvalues, site j >= 1 is eval and repr of name j
ArgOutcomes == {"ok", "KeyError", "KeyboardInterrupt"}

NameOutcomes == {"value", "unbound", "raises", "KeyboardInterrupt"}

\* the things that may go wrong in a render of n frames
FaultSet(n) ==
    {[frame |-> f, site |-> 0, kind |-> k] :
        f \in 1..n, k \in ArgOutcomes \ {"ok"}}
    \cup {[frame |-> f, site |-> j, kind |-> k] :
             f \in 1..n, j \in 1..Len(line_names),
             k \in NameOutcomes \ {"value"}}

\* at most two of them, at different sites
Faults(n) ==
    {F \in {{a, b} : a, b \in FaultSet(n)} \cup {{}} :
        \A a, b \in F : (a.frame = b.frame /\ a.site = b.site) => a = b}

\* the renders: the number of frame records, VerboseTB.include_vars, the
\* co_varnames of the frames' code, and what goes wrong
Renders ==
    UNION {[n : {n}, include_vars : BOOLEAN,
            co_varnames : SUBSET {"p", "q"}, faults : Faults(n)] :
           n \in 1..MaxRecords}

\* what happens at a site of a frame
outcome(inp, f, j) ==
    IF \E a \in inp.faults : a.frame = f /\ a.site = j
    THEN (CHOOSE a \in inp.faults : a.frame = f /\ a.site = j).kind
    ELSE IF j = 0 THEN "ok" ELSE "value"

\* a resolution that shows the value of every name that is bound
name_value_if_bound(o) == IF o = "unbound" THEN "undefined" ELSE "value"

\* VerboseTB.text, one name: has_key, then repr(eval(...)) under a bare
\* except
name_value(o) == IF o = "value" THEN "value" ELSE "undefined"

\* VerboseTB.text, one name: the scope it is resolved in and what is shown
resolve_name(inp, f, j) ==
    [name  |-> line_names[j],
     scope |-> IF name_base(line_names[j]) \in inp.co_varnames
               THEN "local" ELSE "global",
     value |-> name_value(outcome(inp, f, j))]

\* VerboseTB.text, one record: the call line and the name values
frame_block(inp, f) ==
    [frame |-> f,
     call  |-> IF outcome(inp, f, 0) = "KeyError" THEN "failed resolving"
               ELSE IF inp.include_vars THEN "values" ELSE "names only",
     lvals |-> IF inp.include_vars
               THEN [j \in 1..Len(line_names) |-> resolve_name(inp, f, j)]
               ELSE <<>>]

\* text_repr re-raises KeyboardInterrupt and formatargvalues is guarded
\* against KeyError only: the records at which the render is interrupted
interrupted_at(inp) ==
    {f \in 1..inp.n : inp.include_vars
                      /\ outcome(inp, f, 0) = "KeyboardInterrupt"}

\* VerboseTB.text, the loop over the records and the exception line
verbose_frames(inp) ==
    IF interrupted_at(inp) # {}
    THEN [raised |-> "KeyboardInterrupt", blocks |-> <<>>, excline |-> FALSE]
    ELSE [raised |-> "none",
          blocks |-> [f \in 1..inp.n |-> frame_block(inp, f)],
          excline |-> TRUE]

\* VerboseTB.text on obtained frame records
call_verbose_frames ==
    /\ detail.fn = "pending"
    /\ detail.call = "verbose_frames"
    /\ detail' = LET inp == detail.args
                     r   == verbose_frames(inp)
                 IN  [fn |-> "verbose_frames", input |-> inp,
                      raised |-> r.raised, blocks |-> r.blocks,
                      excline |-> r.excline]
    /\ UNCHANGED <<tbvars, pdbvars, win, driver>>

-----------------------------------------------------------------------------
(* Construction *)

\* the constructor arguments of one renderer and whether stdout is a terminal
\* while it is constructed
CtorArgs == [mode : Modes, color_scheme : Schemes, tb_offset : 0..MaxOffset,
             isatty : BOOLEAN]

\* the defaults of AutoFormattedTB.__init__, on a terminal
DefaultArgs == [mode |-> "Plain", color_scheme |-> "Linux", tb_offset |-> 0,
                isatty |-> TRUE]

\* the renderers after tb1 and then tb2 were constructed with the arguments a[t]
Constructed(a) ==
    /\ active_scheme_name = init_scheme(a["tb2"].isatty, a["tb2"].color_scheme)
    /\ old_scheme = [t \in TBs |-> a[t].color_scheme]
    /\ Colors = [t \in TBs |-> init_scheme(a[t].isatty, a[t].color_scheme)]
    /\ mode = [t \in TBs |-> a[t].mode]
    /\ include_vars = [t \in TBs |-> (a[t].mode = valid_modes[3])]
    /\ tb_offset = [t \in TBs |-> a[t].tb_offset]
    /\ report = NoReport
    /\ raised = "none"
    /\ tog = NoRun
    /\ cyc = NoRun

\* the source file lengths and the frames' lines a run starts with
FileLens == {0, ShortFile, MaxFileLen}

BaseLines == {1, MidLine, MaxFileLen + 2}

\* the debugger after Pdb.__init__, for a program whose file has nl lines and
\* whose frame at depth k stands at line base + k - 1, in a process whose
\* next breakpoint number is first
PdbWithBreaks(nl, base, first) ==
    /\ nlines = nl
    /\ f_lineno = [k \in FrameIds |-> base + k - 1]
    /\ stack = <<>>
    /\ curindex = 0
    /\ curframe = NoFrame
    /\ lineno = NoLine
    /\ session = "idle"
    /\ private_frame_stack = <<>>
    /\ out = NoOut
    /\ cmdline = NoCmd
    /\ listrun = NoListRun
    /\ breaks = NoBreaks(first)

\* ... in a process that has made no breakpoint yet
PdbConstructed(nl, base) == PdbWithBreaks(nl, base, Pow10(0))

InitTB == \E a \in [TBs -> CtorArgs] : Constructed(a)

InitPdb == \E nl \in FileLens, base \in BaseLines : PdbConstructed(nl, base)

Init == InitTB /\ InitPdb /\ win = NoWin /\ detail = NoDetail /\ driver = NoDriver

\* renderers that differ in color scheme and terminal only
InitColors ==
    /\ \E a \in [TBs -> CtorArgs] :
          /\ \A t \in TBs : a[t].mode = DefaultArgs.mode
                            /\ a[t].tb_offset = DefaultArgs.tb_offset
          /\ Constructed(a)
    /\ PdbConstructed(MaxFileLen, 1)
    /\ win = NoWin
    /\ detail = NoDetail
    /\ driver = NoDriver

\* renderers that differ in mode and tb_offset only
InitModes ==
    /\ \E a \in [TBs -> CtorArgs] :
          /\ \A t \in TBs : a[t].color_scheme = DefaultArgs.color_scheme
                            /\ a[t].isatty = DefaultArgs.isatty
          /\ Constructed(a)
    /\ PdbConstructed(MaxFileLen, 1)
    /\ win = NoWin
    /\ detail = NoDetail
    /\ driver = NoDriver

\* default renderers, every program of the debugger
InitSession ==
    /\ Constructed([t \in TBs |-> DefaultArgs])
    /\ InitPdb
    /\ win = NoWin
    /\ detail = NoDetail
    /\ driver = NoDriver

\* default renderers, an idle debugger
InitWindows ==
    /\ Constructed([t \in TBs |-> DefaultArgs])
    /\ PdbConstructed(MaxFileLen, 1)
    /\ win = NoWin
    /\ detail = NoDetail
    /\ driver = NoDriver

\* default renderers, an idle debugger, a piece of a report asked for
InitDetail(calls) ==
    /\ Constructed([t \in TBs |-> DefaultArgs])
    /\ PdbConstructed(MaxFileLen, 1)
    /\ win = NoWin
    /\ detail \in calls
    /\ driver = NoDriver

\* every syntax error value, in every mode
InitSyntax ==
    InitDetail({Pending("syntax_report", [m |-> m, v |-> v]) :
                   m \in Modes, v \in SyntaxValues})

\* every error line
InitNames ==
    InitDetail({Pending("names", [toks |-> toks]) : toks \in TokenLines})

\* every render
InitFrames ==
    InitDetail({Pending("verbose_frames", inp) : inp \in Renders})

\* the arguments tbtools/__init__.py constructs defaultTB with
PackageArgs == [mode |-> "Context", color_scheme |-> "LightBG",
                tb_offset |-> 0, isatty |-> TRUE]

\* the package's renderer and debugger, every program, main not yet called
InitDriver ==
    /\ Constructed([t \in TBs |-> PackageArgs])
    /\ InitPdb
    /\ win = NoWin
    /\ detail = NoDetail
    /\ driver = NoDriver

\* default renderers, an idle debugger, every first breakpoint number
InitGutter ==
    /\ Constructed([t \in TBs |-> DefaultArgs])
    /\ \E first \in FirstNumbers : PdbWithBreaks(MaxFileLen, 1, first)
    /\ win = NoWin
    /\ detail = NoDetail
    /\ driver = NoDriver

\* every syntax error window: file length, reported line, context
InitPadding ==
    InitDetail({Pending("syntax_pad", [nl |-> nl, lnum |-> lnum, ctx |-> ctx]) :
                   nl \in 0..MaxWinFile, lnum \in 1..MaxWinLine,
                   ctx \in 1..MaxContext})

\* the package's renderer and debugger, every program, the hook called
InitHook ==
    /\ Constructed([t \in TBs |-> PackageArgs])
    /\ InitPdb
    /\ win = NoWin
    /\ detail \in HookCalls
    /\ driver = NoDriver

TextCalls ==
    \/ \E t \in TBs, m \in Modes \cup {None}, depth \in 0..MaxDepth,
          ok \in BOOLEAN : FormattedTB_text(t, m, depth, ok)
    \/ \E t \in TBs, m \in Modes \cup {None}, depth \in 0..MaxDepth,
          known \in BOOLEAN : SyntaxTB_text(t, m, depth, known)

NextColors ==
    \/ \E t \in TBs, s \in SchemeArgs : set_colors(t, s)
    \/ \E t \in TBs : color_toggle(t)
    \/ TextCalls

NextModes ==
    \/ \E t \in TBs, m \in ModeArgs : set_mode(t, m)
    \/ \E t \in TBs : plain(t)
    \/ \E t \in TBs : context(t)
    \/ \E t \in TBs : verbose(t)
    \/ TextCalls

NextSession ==
    \/ \E k \in FrameIds : live_stop(k)
    \/ \E chain \in Chains : post_mortem(chain)
    \/ do_up
    \/ do_down
    \/ do_where
    \/ \E arg \in ListArgs : do_list(arg)
    \/ do_continue

NextWindows ==
    \/ \E nl \in 0..MaxWinFile, lnum \in 1..MaxWinLine, ctx \in 1..MaxContext :
          call_fixed_getinnerframes(nl, lnum, ctx)
    \/ \E nl \in 0..MaxWinFile, lnum \in 1..MaxWinLine, ctx \in 1..MaxContext :
          call_format_stack_entry(nl, lnum, ctx)
    \/ \E nl \in 0..MaxWinFile, lnum \in 1..MaxWinLine, ctx \in 1..MaxContext :
          call_syntax_window(nl, lnum, ctx)

NextSyntax == call_syntax_report

NextNames == call_name_extractor

NextFrames == call_verbose_frames

NextCall ==
    \/ \E t \in TBs, given \in BOOLEAN, off \in 0..MaxOffset :
          call_begins(t, given, off)
    \/ \E syntax \in BOOLEAN, depth \in 0..MaxDepth, ok \in BOOLEAN,
          known \in BOOLEAN, out_ok \in BOOLEAN :
          call_ends(syntax, depth, ok, known, out_ok)

NextPadding ==
    \/ take_syntax_slice
    \/ pad_syntax_window
    \/ leave_padding_loop

NextHook ==
    \/ hook_ignores_quit
    \/ hook_reports
    \/ hook_enters_postmortem
    \/ hook_returns
    \/ do_up
    \/ do_down

NextGutter ==
    \/ \E line \in BreakLines : set_break(line)
    \/ \E line \in BreakLines : clear_break(line)
    \/ \E i \in 1..MaxBreaks, flag \in BOOLEAN : set_enabled(i, flag)
    \/ \E line \in GutterLines, arrow \in BOOLEAN : call_format_line(line, arrow)
    \/ \E i \in GutterLines, lnum \in GutterLines : call_traceback_num(i, lnum)

NextDriver ==
    \/ main
    \/ runscript
    \/ \E k \in FrameIds : script_stops(k)
    \/ resume
    \/ quit_stopped
    \/ script_restarts
    \/ script_ends
    \/ \E chain \in Chains, ok \in BOOLEAN : script_exits(chain, ok)
    \/ \E chain \in Chains : script_raises(chain)
    \/ \E ok \in BOOLEAN : report_uncaught(ok)
    \/ enter_postmortem
    \/ \E name \in {"continue", "quit"} : leave_postmortem(name)
    \/ do_up
    \/ do_down
    \/ do_where

Next ==
    \/ NextColors
    \/ NextModes
    \/ NextSession
    \/ NextWindows
    \/ NextSyntax
    \/ NextNames
    \/ NextFrames
    \/ NextDriver
    \/ NextCall
    \/ NextGutter
    \/ NextPadding
    \/ NextHook

\* the whole program
Spec == Init /\ [][Next]_vars

\* the color scheme table and the renderers' color operations
SpecColors == InitColors /\ [][NextColors]_vars

\* the renderers' verbosity modes
SpecModes == InitModes /\ [][NextModes]_vars

\* the interactive debugger session
SpecSession == InitSession /\ [][NextSession]_vars

\* the source windows of the renderer and of the debugger
SpecWindows == InitWindows /\ [][NextWindows]_vars

\* the report of a syntax error
SpecSyntax == InitSyntax /\ [][NextSyntax]_vars

\* the name extractor
SpecNames == InitNames /\ [][NextNames]_vars

\* the values of a Verbose render
SpecFrames == InitFrames /\ [][NextFrames]_vars

\* the top-level driver and the sessions it enters
SpecDriver == InitDriver /\ [][NextDriver]_vars

\* the breakpoints of the debugger and the gutters of source lines
SpecGutter == InitGutter /\ [][NextGutter]_vars

\* the padding loop of the syntax error window; the renderer runs on
SpecPadding == InitPadding /\ [][NextPadding]_vars /\ WF_vars(NextPadding)

\* the replacement excepthook of the package
SpecHook == InitHook /\ [][NextHook]_vars

\* calls of a renderer as an exception hook
SpecCall == InitModes /\ [][NextCall]_vars

-----------------------------------------------------------------------------
(* Properties *)

\* C1: for a renderer whose mode is Plain, Context or Verbose, every
\* set_mode() call without argument advances the mode one step in the cycle
\* Plain -> Context -> Verbose -> Plain, and three consecutive such calls on
\* a renderer bring it back to the mode it started from.
C1_ModeCycle ==
    cyc.n >= 1 =>
        /\ (cyc.prev = "Plain" => mode[cyc.tb] = "Context")
        /\ (cyc.prev = "Context" => mode[cyc.tb] = "Verbose")
        /\ (cyc.prev = "Verbose" => mode[cyc.tb] = "Plain")
        /\ (cyc.n = 3 => mode[cyc.tb] = cyc.start)

\* three consecutive set_mode() calls were made on a renderer that was in Plain
C1_Witness == cyc.n = 3 /\ cyc.start = "Plain"

\* C2, in a session: the current index is within [0, len(stack)-1] and the
\* current frame is stack[current index].
IndexInRange ==
    session # "idle" =>
        /\ curindex >= 0
        /\ curindex <= Len(stack) - 1
        /\ curframe = stack[curindex + 1].frame

\* C2, at the boundaries: up at index 0 and down at the last index print the
\* boundary diagnostic and leave index and frame as they are.
BoundaryStep ==
    /\ (cmdline'.name = "up" /\ curindex = 0) =>
          /\ curindex' = curindex
          /\ curframe' = curframe
          /\ out'.diag = "*** Oldest frame"
          /\ out'.entries = <<>>
    /\ (cmdline'.name = "down" /\ curindex = Len(stack) - 1) =>
          /\ curindex' = curindex
          /\ curframe' = curframe
          /\ out'.diag = "*** Newest frame"
          /\ out'.entries = <<>>

\* C2: in every stopped or post-mortem state, after any sequence of up and
\* down commands, the current index stays within [0, len(stack)-1] and the
\* current frame is stack[current index]; up at the oldest frame and down at
\* the newest frame print a boundary diagnostic and leave the index
\* unchanged, never wrapping.
C2_Navigation == []IndexInRange /\ [][BoundaryStep]_vars

\* up was refused at the oldest frame of a stack of several frames
C2_Witness ==
    /\ session # "idle"
    /\ Len(stack) >= 2
    /\ cmdline.name = "up"
    /\ curindex = 0
    /\ out.diag = "*** Oldest frame"

\* C3: color_toggle is a two-state toggle.  A toggle made while a colored
\* scheme is active remembers that scheme's name and makes NoColor active; a
\* toggle made while NoColor is active makes the remembered scheme active.
\* After an even number of consecutive toggles on a renderer the active
\* scheme is the one before the first of them, and after an odd number of
\* toggles that began at a colored scheme it is NoColor.
C3_ColorToggle ==
    tog.n >= 1 =>
        /\ (tog.prev # "NoColor" =>
               /\ active_scheme_name = "NoColor"
               /\ old_scheme[tog.tb] = tog.prev)
        /\ (tog.prev = "NoColor" => active_scheme_name = tog.prev_old)
        /\ (tog.n % 2 = 0 => active_scheme_name = tog.start)
        /\ (tog.n % 2 = 1 /\ tog.start # "NoColor" =>
               active_scheme_name = "NoColor")

\* a renderer was toggled twice in a row, starting at a colored scheme that
\* was not the one it remembered
C3_Witness ==
    /\ tog.n = 2
    /\ tog.start # "NoColor"
    /\ tog.prev_old = tog.start
    /\ \E t \in TBs : old_scheme[t] # tog.start

\* C4: at the start of every report the colors the renderer uses are those
\* of the scheme that is active in the process-wide table at that moment,
\* whichever renderer instance changed the table last.
C4_FreshColors == report.kind # "none" => report.colors = report.table

\* the lines of the window printed by list, as numbered
ListedFrom(first) ==
    \A i \in 1..Len(out.lines) : out.lines[i].num = first + i - 1

BadArgKinds == {"evalerror", "string", "triple"}

\* C7: a list whose argument does not evaluate to an integer or a pair of
\* integers prints the error diagnostic and no source line, leaves cursor,
\* current index, current frame and stack as they are, and the session goes
\* on in the command loop.
C7_ListBadArgument ==
    [][(cmdline'.name = "list" /\ cmdline'.arg.kind \in BadArgKinds) =>
          /\ out'.diag = "*** Error in argument"
          /\ out'.lines = <<>>
          /\ lineno' = lineno
          /\ curindex' = curindex
          /\ curframe' = curframe
          /\ stack' = stack
          /\ session' = session
          /\ session' # "idle"]_vars

\* a malformed list was refused while the cursor was set
C7_Witness ==
    /\ cmdline.name = "list"
    /\ cmdline.arg.kind \in BadArgKinds
    /\ out.diag = "*** Error in argument"
    /\ lineno # NoLine

\* C8: a source window built around a frame's line (the traceback window of
\* _fixed_getinnerframes, the debugger window of format_stack_entry) never
\* has more lines than the size asked for, and has exactly that many when
\* the file has at least that many lines.
C8_WindowWithinSize ==
    win.fn \in {"getinnerframes", "stack_entry"} =>
        /\ Len(win.lines) <= win.context
        /\ (win.nl >= win.context => Len(win.lines) = win.context)

\* C9: the start index of the debugger's stack-entry window is
\* max(0, lineno - 1 - context//2), clamped so that start + context stays
\* within the file when the file has at least context lines; for a shorter
\* file the window is all lines of the file from line 1, unpadded, and the
\* start index is never negative.
C9_StackEntryWindow ==
    win.fn = "stack_entry" =>
        /\ win.start >= 0
        /\ (win.nl >= win.context =>
               /\ win.start = Min(Max(0, win.lnum - 1 - (win.context \div 2)),
                                  win.nl - win.context)
               /\ Len(win.lines) = win.context)
        /\ (win.nl < win.context =>
               /\ win.lines = getlines(win.nl)
               /\ \A j \in 1..Len(win.rows) : win.rows[j].num = j)

\* C10: the syntax-error window has exactly 2*c+1 lines, c = context/2, and
\* its middle line is the failing line: it carries the arrow, is numbered
\* with the reported line number and shows the file's line of that number
\* (a blank when the file has no such line).
C10_SyntaxWindowCentered ==
    win.fn = "syntax" =>
        LET c == win.context \div 2
        IN  /\ Len(win.rows) = 2 * c + 1
            /\ win.rows[c + 1].arrow
            /\ win.rows[c + 1].num = win.lnum
            /\ win.rows[c + 1].text =
                 (IF win.lnum <= win.nl THEN win.lnum ELSE Blank)

\* C11: every report of a syntax error that carries a source line text and
\* a column offset (pointing at a character of the displayed line), in every
\* verbosity mode, has a caret line: the characters of the line before the
\* offset are replaced by spaces, whitespace kept, and the single ^ stands
\* in the column where the displayed source line has the character at the
\* offset.
C11_CaretLine ==
    (/\ detail.fn = "syntax_report"
     /\ detail.value.lineno_known
     /\ detail.value.has_line
     /\ detail.value.has_offset
     /\ detail.value.offset > leading_space(detail.value.line)
     /\ detail.value.offset <=
           Len(detail.value.line) - trailing_space(detail.value.line)) =>
        LET line == detail.value.line
            i    == leading_space(line)
            col  == Len(Indent4) + detail.value.offset - i
        IN  /\ detail.raised = "none"
            /\ detail.srcline.present
            /\ detail.caret.present
            /\ Len(detail.caret.text) = col
            /\ detail.caret.text[col] = "^"
            /\ \A k \in 1..(col - 1) :
                  detail.caret.text[k] =
                     (IF k > Len(Indent4) /\ isspace(line[i + k - Len(Indent4)])
                      THEN line[i + k - Len(Indent4)] ELSE " ")
            /\ detail.srcline.text[col] = line[detail.value.offset]

\* the position in raw of the first occurrence of x
first_appearance(raw, x) == CHOOSE i \in 1..Len(raw) :
                               raw[i] = x /\ \A j \in 1..(i - 1) : raw[j] # x

\* C12: for every token sequence of one source line, the name extractor
\* (tokeneater, then uniq_stable) returns a list without duplicates, ordered
\* by first appearance, with no reserved word as a name, and the same list
\* when it is run again on the line; on a.b.c + foo(bar) the list is
\* [a.b.c, foo, bar], also when bar occurs twice on the line.
C12_NameExtractor ==
    detail.fn = "names" =>
        LET raw == detail.names
            u   == detail.unique
        IN  /\ \A i, j \in 1..Len(u) : u[i] = u[j] => i = j
            /\ {u[i] : i \in 1..Len(u)} = {raw[i] : i \in 1..Len(raw)}
            /\ \A i, j \in 1..Len(u) :
                  i < j => first_appearance(raw, u[i]) < first_appearance(raw, u[j])
            /\ \A i \in 1..Len(u) : u[i] \notin kwlist
            /\ detail.again = u
            /\ (detail.tokens \in {ExampleLine, ExampleLineTwice} =>
                   u = <<"a.b.c", "foo", "bar">>)

\* the names of a line on which a name occurs again after another name
C12_Witness ==
    /\ detail.fn = "names"
    /\ Len(detail.names) = 3
    /\ detail.names[1] = detail.names[3]
    /\ Len(detail.unique) = 2

\* the renders in which no formatting of argument values is interrupted
ArgsUninterrupted(inp) ==
    \A f \in 1..inp.n : outcome(inp, f, 0) # "KeyboardInterrupt"

C14_VarsIffVerbose ==
    [][\A t \in TBs, m \in Modes \cup {None}, depth \in 1..MaxDepth :
          FormattedTB_text(t, m, depth, TRUE) =>
              /\ raised' = "none"
              /\ report'.vars <=> (effective_mode(t, m) = "Verbose")]_vars

\* C15: FormattedTB.text uses VerboseTB.text if and only if the mode in
\* effect is Context or Verbose and the traceback has at least two chained
\* frames; in every other case (mode Plain, one frame, no traceback) it
\* returns the Plain-style list report.
C15_Dispatch ==
    [][\A t \in TBs, m \in Modes \cup {None}, depth \in 0..MaxDepth,
          ok \in BOOLEAN :
          FormattedTB_text(t, m, depth, ok) =>
              /\ raised' = "none"
              /\ report'.kind =
                    (IF effective_mode(t, m) \in {"Context", "Verbose"}
                        /\ depth >= 2
                     THEN IF ok THEN "Verbose" ELSE "Empty"
                     ELSE "List")
              /\ report'.by = t]_vars

\* C16: every call of a renderer's text returns a report, and the report
\* has the line with the exception kind and message.
C16_ExceptionLine ==
    /\ raised # "TypeError"
    /\ report.kind # "none" => report.excline

\* C17, the call: a render that could not obtain the frame records has
\* printed the failure to the error stream and returned the empty report.
EmptyWhenNoRecords ==
    (report.kind \in {"Verbose", "Empty"} /\ ~report.records_ok) =>
        /\ report.kind = "Empty"
        /\ report.stderr
        /\ report.entries = 0

\* C17, the renderer: the call that could not obtain the frame records
\* raises nothing and leaves mode, colors and tb_offset of every renderer
\* as they were.
EmptyLeavesRenderer ==
    (report' # report /\ report'.kind \in {"Verbose", "Empty"}
                      /\ ~report'.records_ok) =>
        /\ raised' = "none"
        /\ UNCHANGED <<mode, include_vars, tb_offset, Colors, old_scheme,
                       active_scheme_name>>

\* C17, afterwards: with the empty report returned, the renderer has a
\* valid mode and a registered color scheme, as a later call needs.
UsableAfterEmpty ==
    report.kind = "Empty" =>
        /\ mode[report.by] \in Modes
        /\ include_vars[report.by] = (mode[report.by] = "Verbose")
        /\ Colors[report.by] \in Schemes
        /\ tb_offset[report.by] \in 0..MaxOffset

\* C17: when the frame records cannot be obtained at all, VerboseTB.text
\* prints the failure to the error stream, returns the empty report for
\* that call and raises nothing; mode, color scheme and tb_offset are
\* unchanged and the renderer is usable for later calls.
C17_EmptyReport ==
    /\ [](EmptyWhenNoRecords /\ UsableAfterEmpty)
    /\ [][EmptyLeavesRenderer]_vars

\* a Verbose-mode renderer with a tb_offset returned the empty report
C17_Witness ==
    /\ report.kind = "Empty"
    /\ report.stderr
    /\ raised = "none"
    /\ mode[report.by] = "Verbose"
    /\ tb_offset[report.by] = 1

\* C18: in every report with a non-empty stack the entries are in the order
\* of the captured stack, outermost first and innermost last, one block per
\* entry, and exactly the last block is written with the emphasized color
\* roles.
C18_OrderAndEmphasis ==
    report.blocks # <<>> =>
        /\ Len(report.blocks) = report.entries
        /\ \A i, j \in 1..Len(report.blocks) :
              i < j => report.blocks[i].entry < report.blocks[j].entry
        /\ \A i \in 1..Len(report.blocks) :
              report.blocks[i].em <=> (i = Len(report.blocks))

\* C19: a KeyboardInterrupt raised while a frame's values are converted to
\* text in a Verbose render (formatting its argument values, resolving the
\* names of its error line) does not abort the render: text raises nothing
\* and returns a report with a block for every frame and the exception
\* line.
C19_InterruptKeepsReport ==
    (/\ detail.fn = "verbose_frames"
     /\ detail.input.include_vars
     /\ \E a \in detail.input.faults : a.kind = "KeyboardInterrupt") =>
        /\ detail.raised = "none"
        /\ Len(detail.blocks) = detail.input.n
        /\ detail.excline

\* C20: after a quit command given in a stopped state of a session started
\* by main (a live stop or the post-mortem session), the script is never
\* started again.
C20_QuitEndsDriver ==
    driver.quit_given => driver.pc \notin {"running", "stopped", "postmortem"}

\* how main stands to the outcome of the run it supervises
OutcomeDecides ==
    /\ driver.outcome \in {"finished", "restart", "exit"} =>
          driver.pc = "loop" /\ ~driver.pm
    /\ driver.outcome = "quit" => driver.pc = "terminated"
    /\ driver.outcome = "raised" =>
          /\ driver.pc \in {"caught", "reported", "postmortem", "loop"}
          /\ driver.pc # "caught" => driver.reported
          /\ driver.pc = "loop" => driver.pm
    /\ driver.pm => driver.outcome = "raised" /\ driver.reported
    /\ driver.pc = "terminated" => driver.outcome = "quit"
    /\ session = "postmortem" =>
          /\ driver.pc = "postmortem"
          /\ driver.pm
          /\ [i \in 1..Len(stack) |-> stack[i].frame] = driver.tb

\* at the top of its loop main can only start the script
LoopStartsAgain == driver.pc = "loop" => driver'.pc = "running"

stack_frames == [i \in 1..Len(stack) |-> stack[i].frame]

\* C22: post_mortem(t) enters the command loop of a session without a live
\* tracer; the stack of that session is made of exactly the frames of the
\* traceback chain of t, in chain order (oldest caller first, failing frame
\* last), the current index is that of the last frame and the current frame
\* is that frame.
C22_PostMortemStack ==
    [][\A chain \in Chains :
          post_mortem(chain) =>
              /\ session' = "postmortem"
              /\ stack_frames' = chain
              /\ curindex' = Len(chain) - 1
              /\ curframe' = chain[Len(chain)]]_vars

\* post_mortem was just called on a chain of two frames that begins above
\* the bottom frame of the program
C22_Witness ==
    /\ session = "postmortem"
    /\ cmdline = NoCmd
    /\ private_frame_stack = <<2, 3>>
    /\ stack_frames = <<2, 3>>
    /\ curindex = 1

\* C23: a per-call tb_offset of AutoFormattedTB.__call__ is used for that
\* call only: when the call has ended, whether the report was printed or
\* the rendering or the write to out raised, the instance's tb_offset is
\* what it was before the call.
C23_OffsetRestored ==
    detail.fn = "called" => tb_offset[detail.by] = detail.before

\* the breakpoints that exist at a line, by their index in bpbynumber
live_breaks_at(line) ==
    {i \in DOMAIN breaks.bpbynumber :
        ~breaks.bpbynumber[i].deleted /\ breaks.bpbynumber[i].line = line}

\* the one made last of a non-empty set of breakpoints
newest(S) == CHOOSE i \in S : \A j \in S : j <= i

marker_of(g) ==
    PySlice(g.num, 0, Len(g.num) - Len(str(g.lineno)))

\* C25: with d the digits of the line number and b the digits of the
\* breakpoint number shown (0 without one, and always 0 in a traceback
\* report), the marker of the current line is, for pad = 7 - d - b, pad - 3
\* dashes and '-> ' when pad >= 3, '> ' when pad = 2, '>' when pad = 1 and
\* empty when pad <= 0; whenever d + b <= 7 the gutter (breakpoint number,
\* marker, line number) of the current line is 7 columns wide, as wide as
\* the right-aligned gutter of every other line.
C25_GutterWidth ==
    detail.fn = "format_line" =>
        LET d == Len(str(detail.lineno))
            b == Len(detail.bp_mark)
            pad == 7 - d - b
            m == marker_of(detail)
        IN  /\ detail.site = "traceback" => b = 0
            /\ detail.arrow =>
                  /\ detail.num = m \o str(detail.lineno)
                  /\ pad >= 3 =>
                        /\ Len(m) = pad
                        /\ \A i \in 1..(pad - 3) : m[i] = "-"
                        /\ PySlice(m, pad - 3, pad) = <<"-", ">", " ">>
                  /\ pad = 2 => m = <<">", " ">>
                  /\ pad = 1 => m = <<">">>
                  /\ pad <= 0 => m = <<>>
            /\ d + b <= 7 => Len(detail.bp_mark \o detail.num) = 7

\* the gutter of a current line with a two-digit breakpoint number and a
\* four-digit line number was written in the debugger: one column is left
\* for the marker
C25_Witness ==
    /\ detail.fn = "format_line"
    /\ detail.site = "debugger"
    /\ detail.arrow
    /\ Len(detail.bp_mark) = 2
    /\ Len(str(detail.lineno)) = 4
    /\ detail.num = <<">">> \o str(detail.lineno)

\* C26: in the source window of a frame of a Context or Verbose traceback
\* report, for every file length and every error line lnum >= 1 (also when
\* the window would begin before line 1), the line with the arrow is
\* labelled lnum and shows the file's line lnum, and every other line of the
\* file that is displayed is labelled with its own line number.
C26_TracebackLabels ==
    win.fn = "getinnerframes" =>
        /\ \E j \in 1..Len(win.rows) : win.rows[j].arrow
        /\ \A j \in 1..Len(win.rows) :
              /\ win.rows[j].arrow =>
                    /\ win.rows[j].num = win.lnum
                    /\ win.rows[j].text =
                          (IF win.lnum <= win.nl THEN win.lnum ELSE Blank)
              /\ win.rows[j].text # Blank =>
                    win.rows[j].text = win.rows[j].num

\* C27: a live stop of the session (set_trace, a breakpoint, the end of a
\* step), also one that comes after an earlier post_mortem on the same
\* session, presents the stack of the frame that is stopped now, and the
\* current frame is that frame; the frames captured for the earlier
\* post-mortem are not used again.
C27_LiveStopStack ==
    [][\A k \in FrameIds :
          live_stop(k) =>
              /\ stack_frames' = LiveStack(k)
              /\ curframe' = k]_vars

\* the slice taken before the padding loop has at most 2 * (context/2) lines
SliceFits ==
    detail.fn \in {"padding", "padded"} => detail.sliced <= 2 * detail.context

\* C28: the loop of SyntaxTB.text that pads the window with blank lines
\* until it has 2 * (context/2) + 1 lines terminates for every file length
\* (an empty or unreadable file has no lines) and every reported line
\* number: the slice taken before the loop never has more than
\* 2 * (context/2) lines, and the loop is left.
C28_PaddingTerminates == []SliceFits /\ <>(detail.fn = "padded")

\* the loop was left after padding a slice that a negative start index took
\* from the end of a short file
C28_Witness ==
    /\ detail.fn = "padded"
    /\ detail.lnum <= detail.context
    /\ detail.sliced >= 1
    /\ Len(detail.lines) > detail.sliced
    /\ Len(detail.lines) = 2 * detail.context + 1

\* C29: the replacement excepthook does nothing at all (no report, no
\* post-mortem) when the exception type is BdbQuit; for every other
\* exception it writes the report first and enters post-mortem only
\* afterwards, and only when a traceback is present, standard output is
\* open and a terminal, and the type is not named DistributionNotFound.
C29_HookOrder ==
    detail.fn = "excepthook" =>
        /\ detail.etype = "BdbQuit" =>
              /\ ~detail.reported
              /\ ~detail.pm
              /\ report = NoReport
              /\ session = "idle"
        /\ detail.etype # "BdbQuit" /\ detail.pc # "called" => detail.reported
        /\ session = "postmortem" => detail.pm
        /\ detail.pm =>
              /\ detail.reported
              /\ detail.tb # <<>>
              /\ ~detail.closed
              /\ detail.isatty
              /\ detail.etype # "DistributionNotFound"

====
